---- MODULE Spec2Model ----
(***************************************************************************)
(* A model of joyrexus/buckets: the Bucket convenience operations and the  *)
(* prefix/range scanners built on bolt's transactions and ordered cursor.  *)
(*                                                                         *)
(* A Go []byte is modelled as a record [isNil, bytes]: the nil slice and   *)
(* the empty slice both have length 0 but only the first compares equal to *)
(* nil.  What bolt stores is a plain byte sequence.  A slice also carries   *)
(* the memory behind it: "heap" for a slice the caller or this package      *)
(* allocated, "tx" for a slice bolt hands out of a transaction, which       *)
(* points into the transaction's pages and is valid only while the          *)
(* transaction is open.                                                     *)
(***************************************************************************)
EXTENDS Integers, Sequences, FiniteSets, TLC

VARIABLES store, handles, scanner, before, last, calls

vars == <<store, handles, scanner, before, last, calls>>

(* ------------------------------ bounds ------------------------------- *)

\* Longest batch handed to Insert / InsertNX.
MaxItems == 2

(* --------------------------- input universes ------------------------- *)

NilBytes == [isNil |-> TRUE, bytes |-> <<>>, mem |-> "none"]

Bytes(s) == [isNil |-> FALSE, bytes |-> s, mem |-> "heap"]

\* A slice bolt returns from Get or from a cursor: it points into the pages of
\* the transaction it was read in.
TxBytes(s) == [isNil |-> FALSE, bytes |-> s, mem |-> "tx"]

\* Bucket names used by the callers.
Names == {"things", "paths"}

\* Byte strings the callers use as keys (the empty one is rejected by bolt).
KeyA == <<1>>
KeyAB == <<1, 2>>
KeyB == <<2>>

\* Keys handed to the single-item and batch operations.
PutKeys == {Bytes(<<>>), Bytes(KeyA), Bytes(KeyB)}

\* Values handed to Put / PutNX.
PutValues == {NilBytes, Bytes(<<>>), Bytes(<<7>>)}

\* Items handed to Insert / InsertNX.
ItemSet == {[Key |-> k, Value |-> v] : k \in PutKeys, v \in {Bytes(<<>>), Bytes(<<7>>)}}

RECURSIVE SeqsUpTo(_, _)
SeqsUpTo(S, n) ==
    IF n = 0 THEN {<<>>}
    ELSE LET shorter == SeqsUpTo(S, n - 1)
         IN  shorter \cup {Append(s, x) : s \in {t \in shorter : Len(t) = n - 1}, x \in S}

Batches == SeqsUpTo(ItemSet, MaxItems)

\* The bucket the scanners are built on, the keys and values written to it,
\* and the prefixes and range bounds scanned for (nil, empty, keys of the
\* bucket, and <<1, 1>>, which is never a key and sorts between two keys).
ScanName == "paths"

ScanKeys == {Bytes(KeyA), Bytes(KeyAB), Bytes(KeyB)}

ScanValues == {Bytes(<<>>), Bytes(<<7>>)}

ScanBounds == {NilBytes, Bytes(<<>>), Bytes(KeyA), Bytes(<<1, 1>>), Bytes(KeyAB), Bytes(KeyB)}

(* ------------------------------ bytes -------------------------------- *)

\* bytes.Compare: byte-lexicographic three-way comparison.
RECURSIVE Compare(_, _)
Compare(a, b) ==
    IF a = <<>> THEN (IF b = <<>> THEN 0 ELSE -1)
    ELSE IF b = <<>> THEN 1
    ELSE IF Head(a) < Head(b) THEN -1
    ELSE IF Head(a) > Head(b) THEN 1
    ELSE Compare(Tail(a), Tail(b))

\* bytes.Equal: a nil slice equals an empty one.
BytesEqual(x, y) == x.bytes = y.bytes

\* bytes.HasPrefix(s, prefix): len(s) >= len(prefix) && s[:len(prefix)] == prefix.
HasPrefix(s, prefix) ==
    /\ Len(s.bytes) >= Len(prefix.bytes)
    /\ SubSeq(s.bytes, 1, Len(prefix.bytes)) = prefix.bytes

\* make([]byte, len(v)); copy(value, v): a fresh non-nil slice with v's bytes.
CopyBytes(v) == Bytes(v.bytes)

(* ---------------------- the engine (bolt) as used -------------------- *)

\* The contents of a bucket that holds no item.
EmptyKV == [k \in {} |-> <<>>]

\* tx.Bucket(name) is nil exactly when no bucket of that name exists; calling a
\* method on the nil *bolt.Bucket dereferences it and panics.
TxBucketIsNil(db, name) == name \notin DOMAIN db

\* tx.Bucket(name) when it is not nil: the bucket's contents.
TxBucket(db, name) == db[name]

\* Bucket.Put of bolt: an empty key is rejected, anything else is upserted.
BoltPutErr(k) == IF Len(k.bytes) = 0 THEN "ErrKeyRequired" ELSE "nil"

BoltPut(kv, k, v) ==
    IF BoltPutErr(k) # "nil" THEN kv
    ELSE [x \in DOMAIN kv \cup {k.bytes} |-> IF x = k.bytes THEN v.bytes ELSE kv[x]]

\* Bucket.Get of bolt: nil when the key is absent, else the stored bytes.
BoltGet(kv, k) == IF k.bytes \in DOMAIN kv THEN TxBytes(kv[k.bytes]) ELSE NilBytes

\* Bucket.Delete of bolt: removes the key when present, never an error.
BoltDelete(kv, k) == [x \in DOMAIN kv \ {k.bytes} |-> kv[x]]

\* A committed transaction replaces the bucket's contents.
Commit(db, name, kv) == [db EXCEPT ![name] = kv]


\* tx.CreateBucketIfNotExists(name): an existing bucket is kept as it is.
CreateBucketIfNotExists(db, name) ==
    IF name \in DOMAIN db THEN db
    ELSE [n \in DOMAIN db \cup {name} |-> IF n = name THEN EmptyKV ELSE db[n]]

\* tx.DeleteBucket(name): the bucket and all its items go; missing is an error.
DeleteBucketErr(db, name) == IF name \in DOMAIN db THEN "nil" ELSE "ErrBucketNotFound"

DeleteBucket(db, name) == [n \in DOMAIN db \ {name} |-> db[n]]

(* ------------------------- how a call ends --------------------------- *)

\* The call returned `err` to its caller and left the database as `db`.
Returned(err, db) == [exit |-> "return", err |-> err, db |-> db]

\* The call dereferenced a nil *bolt.Bucket: the transaction is rolled back by
\* the deferred handler of db.Update / db.View and the panic unwinds the caller.
Panicked(db) == [exit |-> "panic", err |-> "none", db |-> db]

(* --------------------------- DB operations --------------------------- *)

\* New gone wrong: the bucket is created anew, empty, whether or not it exists.
NewTruncates(db, name) ==
    Returned("nil", [n \in DOMAIN db \cup {name} |-> IF n = name THEN EmptyKV ELSE db[n]])

\* DB.New: db.Update(CreateBucketIfNotExists), then a handle on the name.
New(db, name) == Returned("nil", CreateBucketIfNotExists(db, name))

\* DB.Delete gone wrong: the bucket is emptied but stays.
DBDeleteEmpties(db, name) ==
    IF DeleteBucketErr(db, name) # "nil"
    THEN Returned(DeleteBucketErr(db, name), db)
    ELSE Returned("nil", [db EXCEPT ![name] = EmptyKV])

\* DB.Delete gone wrong: a missing bucket is not reported.
DBDeleteIgnoresMissing(db, name) == Returned("nil", DeleteBucket(db, name))

\* DB.Delete: db.Update(DeleteBucket); an error rolls the transaction back.
DBDelete(db, name) ==
    IF DeleteBucketErr(db, name) # "nil"
    THEN Returned(DeleteBucketErr(db, name), db)
    ELSE Returned("nil", DeleteBucket(db, name))

(* ------------------------- Bucket operations ------------------------- *)

\* Put gone wrong: an existing key keeps its old value.
PutKeepsExisting(db, name, k, v) ==
    IF TxBucketIsNil(db, name) THEN Panicked(db)
    ELSE IF BoltPutErr(k) # "nil" THEN Returned(BoltPutErr(k), db)
    ELSE IF k.bytes \in DOMAIN TxBucket(db, name) THEN Returned("nil", db)
    ELSE Returned("nil", Commit(db, name, BoltPut(TxBucket(db, name), k, v)))

\* Bucket.Put: one read-write transaction around bolt's Put; db.Update rolls
\* back on an error and on a panic.
Put(db, name, k, v) ==
    IF TxBucketIsNil(db, name) THEN Panicked(db)
    ELSE IF BoltPutErr(k) # "nil" THEN Returned(BoltPutErr(k), db)
    ELSE Returned("nil", Commit(db, name, BoltPut(TxBucket(db, name), k, v)))

\* Get gone wrong: the copy is made whether or not the engine's result is nil,
\* so an absent key reads as an empty value.
GetAlwaysCopies(db, name, k) ==
    IF TxBucketIsNil(db, name)
    THEN [exit |-> "panic", err |-> "none", value |-> NilBytes]
    ELSE [exit |-> "return", err |-> "nil",
          value |-> CopyBytes(BoltGet(TxBucket(db, name), k))]

\* Bucket.Get: one read-only transaction; the value is copied out when the
\* engine's result is not nil, and stays the nil slice otherwise.
Get(db, name, k) ==
    IF TxBucketIsNil(db, name)
    THEN [exit |-> "panic", err |-> "none", value |-> NilBytes]
    ELSE LET v == BoltGet(TxBucket(db, name), k)
         IN  [exit |-> "return", err |-> "nil",
              value |-> IF v.isNil THEN NilBytes ELSE CopyBytes(v)]

\* Delete gone wrong: an absent key is reported as an error.
DeleteFailsOnAbsent(db, name, k) ==
    IF TxBucketIsNil(db, name) THEN Panicked(db)
    ELSE IF k.bytes \notin DOMAIN TxBucket(db, name) THEN Returned("ErrKeyNotFound", db)
    ELSE Returned("nil", Commit(db, name, BoltDelete(TxBucket(db, name), k)))

\* Delete gone wrong: the whole bucket is emptied.
DeleteEmptiesBucket(db, name, k) ==
    IF TxBucketIsNil(db, name) THEN Panicked(db)
    ELSE Returned("nil", Commit(db, name, EmptyKV))

\* Bucket.Delete: one read-write transaction around bolt's Delete.
Delete(db, name, k) ==
    IF TxBucketIsNil(db, name) THEN Panicked(db)
    ELSE Returned("nil", Commit(db, name, BoltDelete(TxBucket(db, name), k)))

\* PutNX gone wrong: the probe's result is not looked at.
PutNXOverwrites(db, name, k, v) == Put(db, name, k, v)

\* Bucket.PutNX: `v, err := bk.Get(k)` assigns the probe's result to the
\* parameter v; the write that follows an absent probe puts that v.
PutNX(db, name, k, v) ==
    LET probe == Get(db, name, k)
        v1 == probe.value
    IN  IF probe.exit = "panic" THEN Panicked(db)
        ELSE IF ~v1.isNil \/ probe.err # "nil" THEN Returned(probe.err, db)
        ELSE Put(db, name, k, v1)

\* The loop of Insert inside its transaction: every item is put in slice
\* order into the transaction's view of the bucket; Put's error is dropped.
RECURSIVE InsertLoop(_, _)
InsertLoop(kv, items) ==
    IF items = <<>> THEN kv
    ELSE InsertLoop(BoltPut(kv, Head(items).Key, Head(items).Value), Tail(items))

\* Insert gone wrong: a key the bucket or an earlier item already holds is skipped.
RECURSIVE InsertSkipLoop(_, _)
InsertSkipLoop(kv, items) ==
    IF items = <<>> THEN kv
    ELSE InsertSkipLoop(IF Head(items).Key.bytes \in DOMAIN kv THEN kv
                        ELSE BoltPut(kv, Head(items).Key, Head(items).Value),
                        Tail(items))

InsertSkipsExisting(db, name, items) ==
    IF items = <<>> THEN Returned("nil", db)
    ELSE IF TxBucketIsNil(db, name) THEN Panicked(db)
    ELSE Returned("nil", Commit(db, name, InsertSkipLoop(TxBucket(db, name), items)))

\* Bucket.Insert: one read-write transaction around the loop; the function
\* always returns nil, so the transaction commits whatever the loop put.
Insert(db, name, items) ==
    IF items = <<>> THEN Returned("nil", db)
    ELSE IF TxBucketIsNil(db, name) THEN Panicked(db)
    ELSE Returned("nil", Commit(db, name, InsertLoop(TxBucket(db, name), items)))

\* The loop of InsertNX: the existence check is bk.Get, a read-only
\* transaction of its own, which reads the committed database `db` and not
\* the puts the enclosing read-write transaction has made so far.
RECURSIVE InsertNXLoop(_, _, _, _)
InsertNXLoop(db, name, kv, items) ==
    IF items = <<>> THEN kv
    ELSE LET item == Head(items)
             v == Get(db, name, item.Key).value
         IN  InsertNXLoop(db, name,
                          IF v.isNil THEN BoltPut(kv, item.Key, item.Value) ELSE kv,
                          Tail(items))

\* InsertNX gone wrong: the existence check is left out.
InsertNXOverwrites(db, name, items) == Insert(db, name, items)

\* Bucket.InsertNX: one read-write transaction around the loop.
InsertNX(db, name, items) ==
    IF items = <<>> THEN Returned("nil", db)
    ELSE IF TxBucketIsNil(db, name) THEN Panicked(db)
    ELSE Returned("nil", Commit(db, name, InsertNXLoop(db, name, TxBucket(db, name), items)))

(* ------------------------------ cursor -------------------------------- *)

\* The least byte string of a non-empty set, in bytes.Compare order.
MinKey(S) == CHOOSE k \in S : \A j \in S : Compare(k, j) <= 0

\* The order in which a bolt cursor meets the keys of a bucket: ascending
\* byte-lexicographic order.
RECURSIVE SortedKeys(_)
SortedKeys(S) ==
    IF S = {} THEN <<>> ELSE <<MinKey(S)>> \o SortedKeys(S \ {MinKey(S)})

\* A cursor over a bucket is a position 1..n+1 in its sorted keys; n+1 is the
\* exhausted cursor, whose key and value are nil.
CursorKey(keys, i) == IF i > Len(keys) THEN NilBytes ELSE TxBytes(keys[i])

CursorValue(kv, keys, i) == IF i > Len(keys) THEN NilBytes ELSE TxBytes(kv[keys[i]])

\* c.Seek(seek): the first position whose key is >= seek, else exhausted.
RECURSIVE SeekFrom(_, _, _)
SeekFrom(keys, seek, i) ==
    IF i > Len(keys) THEN i
    ELSE IF Compare(keys[i], seek.bytes) >= 0 THEN i
    ELSE SeekFrom(keys, seek, i + 1)

CursorSeek(keys, seek) == SeekFrom(keys, seek, 1)

\* c.Next(): one position on; an exhausted cursor stays exhausted.
CursorNext(keys, i) == IF i > Len(keys) THEN i ELSE i + 1

\* isBefore gone wrong: the upper bound is exclusive.
isBeforeStrict(key, max) == ~key.isNil /\ Compare(key.bytes, max.bytes) < 0

\* isBefore(key, max): key != nil && bytes.Compare(key, max) <= 0.
isBefore(key, max) == ~key.isNil /\ Compare(key.bytes, max.bytes) <= 0

(* --------------------------- the scan loops --------------------------- *)
(* Every view of a scanner runs the same loop header; a loop is modelled   *)
(* by the sequence of (k, v) its body runs on.  A loop whose condition     *)
(* holds on the exhausted cursor never exits, because c.Next() keeps       *)
(* returning nil: its record has exit "never" and ends with the first of   *)
(* the nil keys the body runs on.                                          *)

\* for k, v := c.Seek(pre); bytes.HasPrefix(k, pre); k, v = c.Next() { body }
RECURSIVE PrefixLoop(_, _, _, _, _)
PrefixLoop(kv, keys, pre, i, acc) ==
    LET k == CursorKey(keys, i)
        v == CursorValue(kv, keys, i)
    IN  IF ~HasPrefix(k, pre) THEN [exit |-> "return", visited |-> acc]
        ELSE IF i > Len(keys)
        THEN [exit |-> "never", visited |-> Append(acc, [k |-> k, v |-> v])]
        ELSE PrefixLoop(kv, keys, pre, CursorNext(keys, i), Append(acc, [k |-> k, v |-> v]))

PrefixWalk(kv, pre) ==
    LET keys == SortedKeys(DOMAIN kv)
    IN  PrefixLoop(kv, keys, pre, CursorSeek(keys, pre), <<>>)

\* for k, v := c.Seek(rs.Min); isBefore(k, rs.Max); k, v = c.Next() { body }
RECURSIVE RangeLoop(_, _, _, _, _)
RangeLoop(kv, keys, max, i, acc) ==
    LET k == CursorKey(keys, i)
        v == CursorValue(kv, keys, i)
    IN  IF ~isBefore(k, max) THEN [exit |-> "return", visited |-> acc]
        ELSE IF i > Len(keys)
        THEN [exit |-> "never", visited |-> Append(acc, [k |-> k, v |-> v])]
        ELSE RangeLoop(kv, keys, max, CursorNext(keys, i), Append(acc, [k |-> k, v |-> v]))

RangeWalk(kv, min, max) ==
    LET keys == SortedKeys(DOMAIN kv)
    IN  RangeLoop(kv, keys, max, CursorSeek(keys, min), <<>>)

(* --------------------------- scanner views --------------------------- *)
(* Each view is its own read-only transaction and walk; it ends as its     *)
(* walk does, and panics when the scanner's bucket does not exist.         *)

EachKey(visited) == [j \in 1..Len(visited) |-> visited[j].k]

EachValue(visited) == [j \in 1..Len(visited) |-> visited[j].v]

EachItem(visited) == [j \in 1..Len(visited) |-> [Key |-> visited[j].k, Value |-> visited[j].v]]

\* PrefixScanner.Count: count++ on every key of the walk.
PrefixScannerCount(db, ps) ==
    IF TxBucketIsNil(db, ps.BucketName) THEN [exit |-> "panic", err |-> "none", count |-> 0]
    ELSE LET w == PrefixWalk(TxBucket(db, ps.BucketName), ps.Prefix)
         IN  [exit |-> w.exit, err |-> "nil", count |-> Len(w.visited)]

\* PrefixScanner.Keys: keys = append(keys, k).
PrefixScannerKeys(db, ps) ==
    IF TxBucketIsNil(db, ps.BucketName) THEN [exit |-> "panic", err |-> "none", keys |-> <<>>]
    ELSE LET w == PrefixWalk(TxBucket(db, ps.BucketName), ps.Prefix)
         IN  [exit |-> w.exit, err |-> "nil", keys |-> EachKey(w.visited)]

\* Values gone wrong: `k, _ = c.Next()` leaves v at the first value of the walk.
PrefixScannerValuesStale(db, ps) ==
    IF TxBucketIsNil(db, ps.BucketName) THEN [exit |-> "panic", err |-> "none", values |-> <<>>]
    ELSE LET w == PrefixWalk(TxBucket(db, ps.BucketName), ps.Prefix)
         IN  [exit |-> w.exit, err |-> "nil",
              values |-> [j \in 1..Len(w.visited) |-> w.visited[1].v]]

\* PrefixScanner.Values: values = append(values, v).
PrefixScannerValues(db, ps) ==
    IF TxBucketIsNil(db, ps.BucketName) THEN [exit |-> "panic", err |-> "none", values |-> <<>>]
    ELSE LET w == PrefixWalk(TxBucket(db, ps.BucketName), ps.Prefix)
         IN  [exit |-> w.exit, err |-> "nil", values |-> EachValue(w.visited)]

\* PrefixScanner.Items: items = append(items, Item{k, v}).
PrefixScannerItems(db, ps) ==
    IF TxBucketIsNil(db, ps.BucketName) THEN [exit |-> "panic", err |-> "none", items |-> <<>>]
    ELSE LET w == PrefixWalk(TxBucket(db, ps.BucketName), ps.Prefix)
         IN  [exit |-> w.exit, err |-> "nil", items |-> EachItem(w.visited)]

\* RangeScanner.Count
RangeScannerCount(db, rs) ==
    IF TxBucketIsNil(db, rs.BucketName) THEN [exit |-> "panic", err |-> "none", count |-> 0]
    ELSE LET w == RangeWalk(TxBucket(db, rs.BucketName), rs.Min, rs.Max)
         IN  [exit |-> w.exit, err |-> "nil", count |-> Len(w.visited)]

\* Keys gone wrong: the scanner answers from the contents its bucket had when
\* it was created empty, not from the bucket as it is now.
RangeScannerKeysOfCreation(db, rs) ==
    IF TxBucketIsNil(db, rs.BucketName) THEN [exit |-> "panic", err |-> "none", keys |-> <<>>]
    ELSE LET w == RangeWalk(EmptyKV, rs.Min, rs.Max)
         IN  [exit |-> w.exit, err |-> "nil", keys |-> EachKey(w.visited)]

\* RangeScanner.Keys
RangeScannerKeys(db, rs) ==
    IF TxBucketIsNil(db, rs.BucketName) THEN [exit |-> "panic", err |-> "none", keys |-> <<>>]
    ELSE LET w == RangeWalk(TxBucket(db, rs.BucketName), rs.Min, rs.Max)
         IN  [exit |-> w.exit, err |-> "nil", keys |-> EachKey(w.visited)]

\* RangeScanner.Values
RangeScannerValues(db, rs) ==
    IF TxBucketIsNil(db, rs.BucketName) THEN [exit |-> "panic", err |-> "none", values |-> <<>>]
    ELSE LET w == RangeWalk(TxBucket(db, rs.BucketName), rs.Min, rs.Max)
         IN  [exit |-> w.exit, err |-> "nil", values |-> EachValue(w.visited)]

\* RangeScanner.Items
RangeScannerItems(db, rs) ==
    IF TxBucketIsNil(db, rs.BucketName) THEN [exit |-> "panic", err |-> "none", items |-> <<>>]
    ELSE LET w == RangeWalk(TxBucket(db, rs.BucketName), rs.Min, rs.Max)
         IN  [exit |-> w.exit, err |-> "nil", items |-> EachItem(w.visited)]

\* items[string(k)] = v on every step of a walk: a Go map keyed by a string
\* conversion of the key (a copy), holding the cursor's v; a later step on the
\* same key replaces the entry.
EachMapping(visited) ==
    [key \in {visited[j].k.bytes : j \in 1..Len(visited)} |->
        visited[CHOOSE j \in 1..Len(visited) :
                    /\ visited[j].k.bytes = key
                    /\ \A i \in 1..Len(visited) : visited[i].k.bytes = key => i <= j].v]

\* PrefixScanner.ItemMapping
PrefixScannerItemMapping(db, ps) ==
    IF TxBucketIsNil(db, ps.BucketName)
    THEN [exit |-> "panic", err |-> "none", mapping |-> EachMapping(<<>>)]
    ELSE LET w == PrefixWalk(TxBucket(db, ps.BucketName), ps.Prefix)
         IN  [exit |-> w.exit, err |-> "nil", mapping |-> EachMapping(w.visited)]

\* RangeScanner.ItemMapping
RangeScannerItemMapping(db, rs) ==
    IF TxBucketIsNil(db, rs.BucketName)
    THEN [exit |-> "panic", err |-> "none", mapping |-> EachMapping(<<>>)]
    ELSE LET w == RangeWalk(TxBucket(db, rs.BucketName), rs.Min, rs.Max)
         IN  [exit |-> w.exit, err |-> "nil", mapping |-> EachMapping(w.visited)]

\* A call through the scanner value the caller holds goes to the method of
\* its type.
ScannerItemMapping(db, sc) ==
    IF sc.kind = "prefix" THEN PrefixScannerItemMapping(db, sc)
    ELSE RangeScannerItemMapping(db, sc)

ScannerCount(db, sc) ==
    IF sc.kind = "prefix" THEN PrefixScannerCount(db, sc) ELSE RangeScannerCount(db, sc)

ScannerKeys(db, sc) ==
    IF sc.kind = "prefix" THEN PrefixScannerKeys(db, sc) ELSE RangeScannerKeys(db, sc)

ScannerValues(db, sc) ==
    IF sc.kind = "prefix" THEN PrefixScannerValues(db, sc) ELSE RangeScannerValues(db, sc)

ScannerItems(db, sc) ==
    IF sc.kind = "prefix" THEN PrefixScannerItems(db, sc) ELSE RangeScannerItems(db, sc)

(* ------------------------- the caller's `do` -------------------------- *)
(* A callback handed to a Map records the (k, v) it is invoked with and    *)
(* returns an error on the keys in its failOn set, nil on every other key. *)

ErrDo == "errDo"

Dos == {[failOn |-> {}], [failOn |-> {KeyA}], [failOn |-> {KeyAB}]}

DoErr(do, k) == IF k.bytes \in do.failOn THEN ErrDo ELSE "nil"

(* ------------------------- Bucket walks and maps ---------------------- *)

\* c.First(): the first position, exhausted when the bucket is empty.
CursorFirst(keys) == 1

\* ForEach of bolt, as Bucket.Map calls it:
\* for k, v := c.First(); k != nil; k, v = c.Next() { if err := fn(k, v); err != nil { return err } }
RECURSIVE ForEachLoop(_, _, _, _, _)
ForEachLoop(kv, keys, i, do, acc) ==
    LET k == CursorKey(keys, i)
        v == CursorValue(kv, keys, i)
    IN  IF k.isNil THEN [err |-> "nil", visits |-> acc]
        ELSE IF DoErr(do, k) # "nil"
        THEN [err |-> DoErr(do, k), visits |-> Append(acc, [k |-> k, v |-> v])]
        ELSE ForEachLoop(kv, keys, CursorNext(keys, i), do, Append(acc, [k |-> k, v |-> v]))

ForEach(kv, do) ==
    LET keys == SortedKeys(DOMAIN kv)
    IN  ForEachLoop(kv, keys, CursorFirst(keys), do, <<>>)

\* Map gone wrong: every invocation gets the value of the first item.
MapStaleValue(db, name, do) ==
    IF TxBucketIsNil(db, name) THEN [exit |-> "panic", err |-> "none", visits |-> <<>>]
    ELSE LET w == ForEach(TxBucket(db, name), do)
         IN  [exit |-> "return", err |-> w.err,
              visits |-> [j \in 1..Len(w.visits) |-> [k |-> w.visits[j].k, v |-> w.visits[1].v]]]

\* Map gone wrong: the error of `do` is dropped and the walk goes on.
MapIgnoresError(db, name, do) ==
    IF TxBucketIsNil(db, name) THEN [exit |-> "panic", err |-> "none", visits |-> <<>>]
    ELSE LET w == ForEach(TxBucket(db, name), [failOn |-> {}])
         IN  [exit |-> "return", err |-> "nil", visits |-> w.visits]

\* Bucket.Map: one read-only transaction around ForEach(do).
Map(db, name, do) ==
    IF TxBucketIsNil(db, name) THEN [exit |-> "panic", err |-> "none", visits |-> <<>>]
    ELSE LET w == ForEach(TxBucket(db, name), do)
         IN  [exit |-> "return", err |-> w.err, visits |-> w.visits]

\* The body of Items, PrefixItems and RangeItems on one step of its walk:
\* if v != nil { copy k, copy v, items = append(items, Item{key, value}) }
RECURSIVE CopyItems(_)
CopyItems(visited) ==
    IF visited = <<>> THEN <<>>
    ELSE IF Head(visited).v.isNil THEN CopyItems(Tail(visited))
    ELSE <<[Key |-> CopyBytes(Head(visited).k), Value |-> CopyBytes(Head(visited).v)]>>
         \o CopyItems(Tail(visited))

\* for k, v := c.First(); k != nil; k, v = c.Next() { body }
RECURSIVE FirstLoop(_, _, _, _)
FirstLoop(kv, keys, i, acc) ==
    LET k == CursorKey(keys, i)
        v == CursorValue(kv, keys, i)
    IN  IF k.isNil THEN [exit |-> "return", visited |-> acc]
        ELSE FirstLoop(kv, keys, CursorNext(keys, i), Append(acc, [k |-> k, v |-> v]))

FullWalk(kv) ==
    LET keys == SortedKeys(DOMAIN kv)
    IN  FirstLoop(kv, keys, CursorFirst(keys), <<>>)

\* Items gone wrong: an item whose value is empty is left out.
ItemsSkipsEmpty(db, name) ==
    IF TxBucketIsNil(db, name) THEN [exit |-> "panic", err |-> "none", items |-> <<>>]
    ELSE LET w == FullWalk(TxBucket(db, name))
         IN  [exit |-> w.exit, err |-> "nil",
              items |-> SelectSeq(CopyItems(w.visited), LAMBDA it : Len(it.Value.bytes) > 0)]

\* Bucket.Items: one read-only transaction, the whole bucket copied out.
Items(db, name) ==
    IF TxBucketIsNil(db, name) THEN [exit |-> "panic", err |-> "none", items |-> <<>>]
    ELSE LET w == FullWalk(TxBucket(db, name))
         IN  [exit |-> w.exit, err |-> "nil", items |-> CopyItems(w.visited)]

\* Bucket.PrefixItems: the prefix loop, each item copied out.
PrefixItems(db, name, pre) ==
    IF TxBucketIsNil(db, name) THEN [exit |-> "panic", err |-> "none", items |-> <<>>]
    ELSE LET w == PrefixWalk(TxBucket(db, name), pre)
         IN  [exit |-> w.exit, err |-> "nil", items |-> CopyItems(w.visited)]

\* Bucket.RangeItems: the range loop, each item copied out.
RangeItems(db, name, min, max) ==
    IF TxBucketIsNil(db, name) THEN [exit |-> "panic", err |-> "none", items |-> <<>>]
    ELSE LET w == RangeWalk(TxBucket(db, name), min, max)
         IN  [exit |-> w.exit, err |-> "nil", items |-> CopyItems(w.visited)]

\* Bucket.MapPrefix: the prefix loop with body do(k, v); the result of do is
\* not looked at and the function returns nil.
MapPrefix(db, name, do, pre) ==
    IF TxBucketIsNil(db, name) THEN [exit |-> "panic", err |-> "none", visits |-> <<>>]
    ELSE LET w == PrefixWalk(TxBucket(db, name), pre)
         IN  [exit |-> w.exit, err |-> "nil", visits |-> w.visited]

\* Bucket.MapRange: the range loop with body do(k, v); the result of do is
\* not looked at and the function returns nil.
MapRange(db, name, do, min, max) ==
    IF TxBucketIsNil(db, name) THEN [exit |-> "panic", err |-> "none", visits |-> <<>>]
    ELSE LET w == RangeWalk(TxBucket(db, name), min, max)
         IN  [exit |-> w.exit, err |-> "nil", visits |-> w.visited]

(* ----------------------------- scanner maps --------------------------- *)

\* PrefixScanner.Map: for k, v := c.Seek(pre); bytes.HasPrefix(k, pre); k, _ = c.Next()
\* with body do(k, v): v is assigned by Seek only, so every invocation gets
\* the value of the first matched key; the result of do is not looked at.
PrefixScannerMap(db, ps, do) ==
    IF TxBucketIsNil(db, ps.BucketName) THEN [exit |-> "panic", err |-> "none", visits |-> <<>>]
    ELSE LET w == PrefixWalk(TxBucket(db, ps.BucketName), ps.Prefix)
         IN  [exit |-> w.exit, err |-> "nil",
              visits |-> [j \in 1..Len(w.visited) |-> [k |-> w.visited[j].k, v |-> w.visited[1].v]]]

\* RangeScanner.Map: the range loop with body do(k, v); the result of do is
\* not looked at.
RangeScannerMap(db, rs, do) ==
    IF TxBucketIsNil(db, rs.BucketName) THEN [exit |-> "panic", err |-> "none", visits |-> <<>>]
    ELSE LET w == RangeWalk(TxBucket(db, rs.BucketName), rs.Min, rs.Max)
         IN  [exit |-> w.exit, err |-> "nil", visits |-> w.visited]

ScannerMap(db, sc, do) ==
    IF sc.kind = "prefix" THEN PrefixScannerMap(db, sc, do) ELSE RangeScannerMap(db, sc, do)

(* ------------------------------ the machine -------------------------- *)
(* One caller.  An action Do<Op> is a whole call: it runs the operation on *)
(* the database, leaves the database as it was before the call in `before`    *)
(* and what the call was and how it ended in `last`.  The caller then      *)
(* takes the result (Resume) and makes its next call.  A call that         *)
(* panicked or that never returns leaves the caller where it is.           *)

NoCall == [op |-> "none"]

\* The goroutines that call concurrently, and a goroutine that is in no call:
\* `open` is the stack of transactions the call has open, `txs` the number it
\* has opened so far.
Callers == {"g1", "g2"}

IdleCall == [op |-> "none", pc |-> "idle", open |-> <<>>, txs |-> 0]

Idle == last = NoCall

Init ==
    /\ store = [n \in {} |-> EmptyKV]
    /\ handles = {}
    /\ scanner = [kind |-> "none"]
    /\ before = [n \in {} |-> EmptyKV]
    /\ last = NoCall
    /\ calls = [p \in Callers |-> IdleCall]

\* The caller takes the result of a call that returned.
Resume ==
    /\ last # NoCall
    /\ last.exit = "return"
    /\ last' = NoCall
    /\ before' = store
    /\ UNCHANGED <<store, handles, scanner, calls>>

\* bx.New(name)
CallNew(name) ==
    LET r == New(store, name)
    IN  /\ Idle
        /\ store' = r.db
        /\ handles' = handles \cup {name}
        /\ before' = store
        /\ last' = [op |-> "New", name |-> name, exit |-> r.exit, err |-> r.err]
        /\ UNCHANGED <<scanner, calls>>

\* bx.Delete(name)
CallDBDelete(name) ==
    LET r == DBDelete(store, name)
    IN  /\ Idle
        /\ store' = r.db
        /\ before' = store
        /\ last' = [op |-> "DBDelete", name |-> name, exit |-> r.exit, err |-> r.err]
        /\ UNCHANGED <<handles, scanner, calls>>

\* bk.Put(k, v) on a handle obtained from New
CallPut(name, k, v) ==
    LET r == Put(store, name, k, v)
    IN  /\ Idle
        /\ name \in handles
        /\ store' = r.db
        /\ before' = store
        /\ last' = [op |-> "Put", name |-> name, k |-> k, v |-> v,
                    exit |-> r.exit, err |-> r.err]
        /\ UNCHANGED <<handles, scanner, calls>>

\* Get gone wrong: the key that was read is removed.
CallGetConsumes(name, k) ==
    LET r == Get(store, name, k)
    IN  /\ Idle
        /\ name \in handles
        /\ store' = Delete(store, name, k).db
        /\ before' = store
        /\ last' = [op |-> "Get", name |-> name, k |-> k,
                    exit |-> r.exit, err |-> r.err, value |-> r.value]
        /\ UNCHANGED <<handles, scanner, calls>>

\* bk.Get(k)
CallGet(name, k) ==
    LET r == Get(store, name, k)
    IN  /\ Idle
        /\ name \in handles
        /\ before' = store
        /\ last' = [op |-> "Get", name |-> name, k |-> k,
                    exit |-> r.exit, err |-> r.err, value |-> r.value]
        /\ UNCHANGED <<store, handles, scanner, calls>>

\* bk.Delete(k)
CallDelete(name, k) ==
    LET r == Delete(store, name, k)
    IN  /\ Idle
        /\ name \in handles
        /\ store' = r.db
        /\ before' = store
        /\ last' = [op |-> "Delete", name |-> name, k |-> k,
                    exit |-> r.exit, err |-> r.err]
        /\ UNCHANGED <<handles, scanner, calls>>

\* bk.PutNX(k, v)
CallPutNX(name, k, v) ==
    LET r == PutNX(store, name, k, v)
    IN  /\ Idle
        /\ name \in handles
        /\ store' = r.db
        /\ before' = store
        /\ last' = [op |-> "PutNX", name |-> name, k |-> k, v |-> v,
                    exit |-> r.exit, err |-> r.err]
        /\ UNCHANGED <<handles, scanner, calls>>

\* bk.Insert(items)
CallInsert(name, items) ==
    LET r == Insert(store, name, items)
    IN  /\ Idle
        /\ name \in handles
        /\ store' = r.db
        /\ before' = store
        /\ last' = [op |-> "Insert", name |-> name, items |-> items,
                    exit |-> r.exit, err |-> r.err]
        /\ UNCHANGED <<handles, scanner, calls>>

\* bk.InsertNX(items)
CallInsertNX(name, items) ==
    LET r == InsertNX(store, name, items)
    IN  /\ Idle
        /\ name \in handles
        /\ store' = r.db
        /\ before' = store
        /\ last' = [op |-> "InsertNX", name |-> name, items |-> items,
                    exit |-> r.exit, err |-> r.err]
        /\ UNCHANGED <<handles, scanner, calls>>

\* bk.NewPrefixScanner(pre): &PrefixScanner{bk.db, bk.Name, pre}, no transaction.
CallNewPrefixScanner(name, p) ==
    /\ Idle
    /\ name \in handles
    /\ scanner' = [kind |-> "prefix", BucketName |-> name, Prefix |-> p]
    /\ before' = store
    /\ last' = [op |-> "NewPrefixScanner", name |-> name, exit |-> "return", err |-> "nil"]
    /\ UNCHANGED <<store, handles, calls>>

\* bk.NewRangeScanner(min, max): &RangeScanner{bk.db, bk.Name, min, max}.
CallNewRangeScanner(name, min, max) ==
    /\ Idle
    /\ name \in handles
    /\ scanner' = [kind |-> "range", BucketName |-> name, Min |-> min, Max |-> max]
    /\ before' = store
    /\ last' = [op |-> "NewRangeScanner", name |-> name, exit |-> "return", err |-> "nil"]
    /\ UNCHANGED <<store, handles, calls>>

\* scanner.Count()
CallCount ==
    LET r == ScannerCount(store, scanner)
    IN  /\ Idle
        /\ scanner.kind # "none"
        /\ before' = store
        /\ last' = [op |-> "Count", exit |-> r.exit, err |-> r.err, count |-> r.count]
        /\ UNCHANGED <<store, handles, scanner, calls>>

\* scanner.Keys()
CallKeys ==
    LET r == ScannerKeys(store, scanner)
    IN  /\ Idle
        /\ scanner.kind # "none"
        /\ before' = store
        /\ last' = [op |-> "Keys", exit |-> r.exit, err |-> r.err, keys |-> r.keys]
        /\ UNCHANGED <<store, handles, scanner, calls>>

\* scanner.Values()
CallValues ==
    LET r == ScannerValues(store, scanner)
    IN  /\ Idle
        /\ scanner.kind # "none"
        /\ before' = store
        /\ last' = [op |-> "Values", exit |-> r.exit, err |-> r.err, values |-> r.values]
        /\ UNCHANGED <<store, handles, scanner, calls>>

\* scanner.Items()
CallItems ==
    LET r == ScannerItems(store, scanner)
    IN  /\ Idle
        /\ scanner.kind # "none"
        /\ before' = store
        /\ last' = [op |-> "Items", exit |-> r.exit, err |-> r.err, items |-> r.items]
        /\ UNCHANGED <<store, handles, scanner, calls>>

\* scanner.ItemMapping()
CallItemMapping ==
    LET r == ScannerItemMapping(store, scanner)
    IN  /\ Idle
        /\ scanner.kind # "none"
        /\ before' = store
        /\ last' = [op |-> "ItemMapping", exit |-> r.exit, err |-> r.err, mapping |-> r.mapping]
        /\ UNCHANGED <<store, handles, scanner, calls>>

\* bk.Map(do)
CallMap(name, do) ==
    LET r == Map(store, name, do)
    IN  /\ Idle
        /\ name \in handles
        /\ before' = store
        /\ last' = [op |-> "Map", name |-> name, do |-> do,
                    exit |-> r.exit, err |-> r.err, visits |-> r.visits]
        /\ UNCHANGED <<store, handles, scanner, calls>>

\* bk.Items()
CallBucketItems(name) ==
    LET r == Items(store, name)
    IN  /\ Idle
        /\ name \in handles
        /\ before' = store
        /\ last' = [op |-> "BucketItems", name |-> name,
                    exit |-> r.exit, err |-> r.err, items |-> r.items]
        /\ UNCHANGED <<store, handles, scanner, calls>>

\* bk.PrefixItems(pre)
CallPrefixItems(name, pre) ==
    LET r == PrefixItems(store, name, pre)
    IN  /\ Idle
        /\ name \in handles
        /\ before' = store
        /\ last' = [op |-> "PrefixItems", name |-> name, pre |-> pre,
                    exit |-> r.exit, err |-> r.err, items |-> r.items]
        /\ UNCHANGED <<store, handles, scanner, calls>>

\* bk.RangeItems(min, max)
CallRangeItems(name, min, max) ==
    LET r == RangeItems(store, name, min, max)
    IN  /\ Idle
        /\ name \in handles
        /\ before' = store
        /\ last' = [op |-> "RangeItems", name |-> name, min |-> min, max |-> max,
                    exit |-> r.exit, err |-> r.err, items |-> r.items]
        /\ UNCHANGED <<store, handles, scanner, calls>>

\* bk.MapPrefix(do, pre)
CallMapPrefix(name, do, pre) ==
    LET r == MapPrefix(store, name, do, pre)
    IN  /\ Idle
        /\ name \in handles
        /\ before' = store
        /\ last' = [op |-> "MapPrefix", name |-> name, do |-> do, pre |-> pre,
                    exit |-> r.exit, err |-> r.err, visits |-> r.visits]
        /\ UNCHANGED <<store, handles, scanner, calls>>

\* bk.MapRange(do, min, max)
CallMapRange(name, do, min, max) ==
    LET r == MapRange(store, name, do, min, max)
    IN  /\ Idle
        /\ name \in handles
        /\ before' = store
        /\ last' = [op |-> "MapRange", name |-> name, do |-> do, min |-> min, max |-> max,
                    exit |-> r.exit, err |-> r.err, visits |-> r.visits]
        /\ UNCHANGED <<store, handles, scanner, calls>>

\* scanner.Map(do)
CallScannerMap(do) ==
    LET r == ScannerMap(store, scanner, do)
    IN  /\ Idle
        /\ scanner.kind # "none"
        /\ before' = store
        /\ last' = [op |-> "ScannerMap", do |-> do,
                    exit |-> r.exit, err |-> r.err, visits |-> r.visits]
        /\ UNCHANGED <<store, handles, scanner, calls>>

(* ------------- Spec: the DB and Bucket operations of one caller ------ *)

DoNew == \E name \in Names : CallNew(name)

DoDBDelete == \E name \in Names : CallDBDelete(name)

DoPut == \E name \in Names, k \in PutKeys, v \in PutValues : CallPut(name, k, v)

DoGet == \E name \in Names, k \in PutKeys : CallGet(name, k)

DoDelete == \E name \in Names, k \in PutKeys : CallDelete(name, k)

DoPutNX == \E name \in Names, k \in PutKeys, v \in PutValues : CallPutNX(name, k, v)

DoInsert == \E name \in Names, items \in Batches : CallInsert(name, items)

DoInsertNX == \E name \in Names, items \in Batches : CallInsertNX(name, items)

DoMap == \E name \in Names, do \in Dos : CallMap(name, do)

DoItems == \E name \in Names : CallBucketItems(name)

Next ==
    \/ DoNew
    \/ DoDBDelete
    \/ DoPut
    \/ DoGet
    \/ DoDelete
    \/ DoPutNX
    \/ DoInsert
    \/ DoInsertNX
    \/ DoMap
    \/ DoItems
    \/ Resume

Spec == Init /\ [][Next]_vars

(* ------------- SpecScan: one bucket, written and scanned ------------- *)

ScanNew == CallNew(ScanName)

ScanDBDelete == CallDBDelete(ScanName)

ScanPut == \E k \in ScanKeys, v \in ScanValues : CallPut(ScanName, k, v)

ScanDelete == \E k \in ScanKeys : CallDelete(ScanName, k)

ScanGet == \E k \in ScanKeys : CallGet(ScanName, k)

ScanNewPrefixScanner == \E p \in ScanBounds : CallNewPrefixScanner(ScanName, p)

ScanNewRangeScanner == \E min \in ScanBounds, max \in ScanBounds : CallNewRangeScanner(ScanName, min, max)

ScanMap == \E do \in Dos : CallMap(ScanName, do)

ScanBucketItems == CallBucketItems(ScanName)

ScanPrefixItems == \E pre \in ScanBounds : CallPrefixItems(ScanName, pre)

ScanRangeItems == \E min \in ScanBounds, max \in ScanBounds : CallRangeItems(ScanName, min, max)

ScanMapPrefix == \E do \in Dos, pre \in ScanBounds : CallMapPrefix(ScanName, do, pre)

ScanMapRange == \E do \in Dos, min \in ScanBounds, max \in ScanBounds : CallMapRange(ScanName, do, min, max)

ScanScannerMap == \E do \in Dos : CallScannerMap(do)

NextScan ==
    \/ ScanNew
    \/ ScanDBDelete
    \/ ScanPut
    \/ ScanDelete
    \/ ScanGet
    \/ ScanNewPrefixScanner
    \/ ScanNewRangeScanner
    \/ CallCount
    \/ CallKeys
    \/ CallValues
    \/ CallItems
    \/ CallItemMapping
    \/ ScanMap
    \/ ScanBucketItems
    \/ ScanPrefixItems
    \/ ScanRangeItems
    \/ ScanMapPrefix
    \/ ScanMapRange
    \/ ScanScannerMap
    \/ Resume

SpecScan == Init /\ [][NextScan]_vars

(* ------------- SpecTx: two goroutines on one bucket -------------------- *)
(* Here a call is the steps between its transaction boundaries.  bolt runs  *)
(* one read-write transaction at a time (db.Update waits for the writer     *)
(* lock) and any number of read-only ones, each on the state committed      *)
(* when it began.  A read-write transaction works on its own view of the    *)
(* bucket, `kv`, which replaces the committed contents when it commits.     *)

TxName == "things"

TxKeys == {Bytes(KeyA), Bytes(KeyB)}

\* What the second goroutine puts, and the items the first one inserts.
TxValue == Bytes(<<8>>)

TxItems == {[Key |-> k, Value |-> Bytes(<<7>>)] : k \in TxKeys}

TxBatches == SeqsUpTo(TxItems, MaxItems) \ {<<>>}

\* Some goroutine holds the writer lock: it has a read-write transaction open.
WriterOpen == \E p \in Callers : \E i \in 1..Len(calls[p].open) : calls[p].open[i] = "update"

\* The goroutines call through a handle on a bucket that exists, after the
\* caller that created it has gone on.
TxReady == Idle /\ TxName \in handles /\ TxName \in DOMAIN store

\* The bucket is created once, before the goroutines start.
TxNew == TxName \notin handles /\ CallNew(TxName)

\* bk.Put(k, v): db.Update, one read-write transaction.
PutTx(p, k, v) ==
    /\ TxReady
    /\ calls[p].pc = "idle"
    /\ ~WriterOpen
    /\ store' = Put(store, TxName, k, v).db
    /\ calls' = [calls EXCEPT ![p] = [op |-> "Put", pc |-> "done", k |-> k, v |-> v,
                                      err |-> Put(store, TxName, k, v).err,
                                      open |-> <<>>, txs |-> 1]]
    /\ UNCHANGED <<handles, scanner, before, last>>

\* bk.Get(k): db.View, one read-only transaction on the committed state;
\* `during` tells whether a read-write transaction was open meanwhile.
GetTx(p, k) ==
    /\ TxReady
    /\ calls[p].pc = "idle"
    /\ calls' = [calls EXCEPT ![p] = [op |-> "Get", pc |-> "done", k |-> k,
                                      value |-> Get(store, TxName, k).value,
                                      err |-> Get(store, TxName, k).err,
                                      during |-> WriterOpen,
                                      open |-> <<>>, txs |-> 1]]
    /\ UNCHANGED <<store, handles, scanner, before, last>>

\* PutNX, line 76: v, err := bk.Get(k), a read-only transaction of its own;
\* lines 77-79: return when the probe found a value.
PutNXProbe(p, k, v) ==
    LET probe == Get(store, TxName, k)
    IN  /\ TxReady
        /\ calls[p].pc = "idle"
        /\ calls' = [calls EXCEPT ![p] =
                        [op |-> "PutNX", k |-> k, v |-> probe.value, err |-> probe.err,
                         pc |-> IF ~probe.value.isNil \/ probe.err # "nil" THEN "done" ELSE "write",
                         wrote |-> FALSE, found |-> NilBytes,
                         open |-> <<>>, txs |-> 1]]
        /\ UNCHANGED <<store, handles, scanner, before, last>>

\* PutNX's write gone wrong: the key is looked up again inside the read-write
\* transaction and a value found there is kept.
PutNXWriteChecks(p) ==
    LET c == calls[p]
        present == c.k.bytes \in DOMAIN store[TxName]
    IN  /\ TxReady
        /\ c.op = "PutNX" /\ c.pc = "write"
        /\ ~WriterOpen
        /\ store' = IF present THEN store ELSE Put(store, TxName, c.k, c.v).db
        /\ calls' = [calls EXCEPT ![p] =
                        [c EXCEPT !.pc = "done", !.wrote = ~present, !.txs = c.txs + 1,
                                  !.found = BoltGet(store[TxName], c.k)]]
        /\ UNCHANGED <<handles, scanner, before, last>>

\* PutNX, lines 80-82: db.Update(Put(k, v)), a second transaction, begun
\* when the writer lock is free; `found` is what k held when it began.
PutNXWrite(p) ==
    LET c == calls[p]
        r == Put(store, TxName, c.k, c.v)
    IN  /\ TxReady
        /\ c.op = "PutNX" /\ c.pc = "write"
        /\ ~WriterOpen
        /\ store' = r.db
        /\ calls' = [calls EXCEPT ![p] =
                        [c EXCEPT !.pc = "done", !.wrote = TRUE, !.txs = c.txs + 1,
                                  !.err = r.err, !.found = BoltGet(store[TxName], c.k)]]
        /\ UNCHANGED <<handles, scanner, before, last>>

\* Insert / InsertNX, line 90 / 103: db.Update begins the read-write
\* transaction; the loop starts at the first item.
BatchBegin(p, op, items) ==
    /\ TxReady
    /\ calls[p].pc = "idle"
    /\ ~WriterOpen
    /\ calls' = [calls EXCEPT ![p] =
                    [op |-> op, pc |-> "loop", items |-> items, i |-> 1,
                     kv |-> TxBucket(store, TxName), begun |-> TxBucket(store, TxName),
                     v |-> NilBytes, open |-> <<"update">>, txs |-> 1]]
    /\ UNCHANGED <<store, handles, scanner, before, last>>

\* Insert's put gone wrong: every item is committed by itself.
InsertPutCommits(p) ==
    LET c == calls[p]
        item == c.items[c.i]
    IN  /\ c.op = "Insert" /\ c.pc = "loop" /\ c.i <= Len(c.items)
        /\ store' = Commit(store, TxName, BoltPut(c.kv, item.Key, item.Value))
        /\ calls' = [calls EXCEPT ![p] =
                        [c EXCEPT !.kv = BoltPut(c.kv, item.Key, item.Value), !.i = c.i + 1]]
        /\ UNCHANGED <<handles, scanner, before, last>>

\* Insert, line 92: tx.Bucket(bk.Name).Put(item.Key, item.Value) inside the
\* transaction.
InsertPut(p) ==
    LET c == calls[p]
        item == c.items[c.i]
    IN  /\ c.op = "Insert" /\ c.pc = "loop" /\ c.i <= Len(c.items)
        /\ calls' = [calls EXCEPT ![p] =
                        [c EXCEPT !.kv = BoltPut(c.kv, item.Key, item.Value), !.i = c.i + 1]]
        /\ UNCHANGED <<store, handles, scanner, before, last>>

\* InsertNX, line 105: bk.Get(item.Key) begins a read-only transaction while
\* the read-write one is open.
InsertNXGetBegin(p) ==
    LET c == calls[p]
    IN  /\ c.op = "InsertNX" /\ c.pc = "loop" /\ c.i <= Len(c.items)
        /\ calls' = [calls EXCEPT ![p] =
                        [c EXCEPT !.pc = "get", !.open = Append(c.open, "view"),
                                  !.txs = c.txs + 1]]
        /\ UNCHANGED <<store, handles, scanner, before, last>>

\* InsertNX, line 105: the Get reads the committed bucket and its
\* transaction ends.
InsertNXGetEnd(p) ==
    LET c == calls[p]
    IN  /\ c.op = "InsertNX" /\ c.pc = "get"
        /\ calls' = [calls EXCEPT ![p] =
                        [c EXCEPT !.pc = "put", !.open = SubSeq(c.open, 1, Len(c.open) - 1),
                                  !.v = Get(store, TxName, c.items[c.i].Key).value]]
        /\ UNCHANGED <<store, handles, scanner, before, last>>

\* InsertNX, lines 106-108: the item is put when the Get returned nil.
InsertNXPut(p) ==
    LET c == calls[p]
        item == c.items[c.i]
    IN  /\ c.op = "InsertNX" /\ c.pc = "put"
        /\ calls' = [calls EXCEPT ![p] =
                        [c EXCEPT !.pc = "loop", !.i = c.i + 1,
                                  !.kv = IF c.v.isNil THEN BoltPut(c.kv, item.Key, item.Value)
                                         ELSE c.kv]]
        /\ UNCHANGED <<store, handles, scanner, before, last>>

\* Insert / InsertNX, lines 94-95 / 110-111: the function returns nil and
\* db.Update commits what the loop put.
BatchCommit(p) ==
    LET c == calls[p]
    IN  /\ c.op \in {"Insert", "InsertNX"} /\ c.pc = "loop" /\ c.i > Len(c.items)
        /\ store' = Commit(store, TxName, c.kv)
        /\ calls' = [calls EXCEPT ![p] = [c EXCEPT !.pc = "done", !.open = <<>>]]
        /\ UNCHANGED <<handles, scanner, before, last>>

\* The call returns to the goroutine that made it.
Return(p) ==
    /\ calls[p].pc = "done"
    /\ calls' = [calls EXCEPT ![p] = IdleCall]
    /\ UNCHANGED <<store, handles, scanner, before, last>>

\* The first goroutine makes the calls that take more than one step, the
\* second writes and reads single keys meanwhile.
TxPutNX == \E k \in TxKeys, v \in {TxValue} : PutNXProbe("g1", k, v)

TxPutNXWrite == PutNXWrite("g1")

TxInsertBegin == \E items \in TxBatches : BatchBegin("g1", "Insert", items)

TxInsertPut == InsertPut("g1")

TxInsertNXBegin == \E items \in TxBatches : BatchBegin("g1", "InsertNX", items)

TxInsertNXGetBegin == InsertNXGetBegin("g1")

TxInsertNXGetEnd == InsertNXGetEnd("g1")

TxInsertNXPut == InsertNXPut("g1")

TxBatchCommit == BatchCommit("g1")

TxPut == \E k \in TxKeys : PutTx("g2", k, TxValue)

TxGet == \E k \in TxKeys : GetTx("g2", k)

TxReturn == \E p \in Callers : Return(p)

NextTx ==
    \/ TxNew
    \/ Resume
    \/ TxPutNX
    \/ TxPutNXWrite
    \/ TxInsertBegin
    \/ TxInsertPut
    \/ TxInsertNXBegin
    \/ TxInsertNXGetBegin
    \/ TxInsertNXGetEnd
    \/ TxInsertNXPut
    \/ TxBatchCommit
    \/ TxPut
    \/ TxGet
    \/ TxReturn

SpecTx == Init /\ [][NextTx]_vars

(* ======================================================================= *)
(*                               properties                                *)
(* ======================================================================= *)

\* The call in `last` was made on a bucket that existed when it was made.
OnExistingBucket == last.name \in DOMAIN before

\* k starts with p (p is an initial segment of k).
StartsWith(k, p) == \E n \in 0..Len(k) : SubSeq(k, 1, n) = p

\* A sequence of keys in strictly ascending byte-lexicographic order.
Ascending(ks) == \A i \in 1..(Len(ks) - 1) : Compare(ks[i].bytes, ks[i + 1].bytes) < 0

\* The byte strings of a returned sequence of non-nil keys.
KeySetOf(ks) == {ks[i].bytes : i \in 1..Len(ks)}

NoNilKey(ks) == \A i \in 1..Len(ks) : ~ks[i].isNil

\* The database after Put has been applied to each item in slice order.
RECURSIVE PutEach(_, _, _)
PutEach(db, name, items) ==
    IF items = <<>> THEN db
    ELSE PutEach(Put(db, name, Head(items).Key, Head(items).Value).db, name, Tail(items))

\* The keys of a batch, and the value of the last item of a batch with key k.
BatchKeys(items) == {items[i].Key.bytes : i \in 1..Len(items)}

LastOf(items, k) ==
    LET at == {i \in 1..Len(items) : items[i].Key.bytes = k}
    IN  items[CHOOSE i \in at : \A j \in at : j <= i].Value.bytes

(* C1 as stated: for every key k and value v, on an existing bucket, after  *)
(* Put(k, v) a Get(k) reports k present with exactly the bytes of v.        *)
C1_RoundTripEveryKey ==
    (last.op = "Put" /\ OnExistingBucket) =>
        LET g == Get(store, last.name, last.k)
        IN  /\ g.exit = "return"
            /\ ~g.value.isNil
            /\ BytesEqual(g.value, last.v)

(* C1 amended: Put returns no error exactly for the non-empty keys, and     *)
(* after a Put(k, v) that returned no error Get(k) reports k present with   *)
(* exactly the bytes of v, whatever k held before (a later Put replaces).   *)
C1_RoundTrip ==
    (last.op = "Put" /\ OnExistingBucket) =>
        /\ last.exit = "return"
        /\ (last.err = "nil") <=> (Len(last.k.bytes) > 0)
        /\ last.err = "nil" =>
              LET g == Get(store, last.name, last.k)
              IN  /\ g.exit = "return"
                  /\ g.err = "nil"
                  /\ ~g.value.isNil
                  /\ BytesEqual(g.value, last.v)

\* A Put that returned no error on a key that held a different value.
C1_Witness ==
    /\ last.op = "Put"
    /\ OnExistingBucket
    /\ last.err = "nil"
    /\ last.k.bytes \in DOMAIN before[last.name]
    /\ before[last.name][last.k.bytes] # last.v.bytes

(* C2: on an existing bucket, PrefixScanner(P).Keys() returns, and returns  *)
(* exactly the keys of the bucket that start with P, in ascending order,    *)
(* each once.                                                               *)
C2_PrefixKeysExact ==
    (last.op = "Keys" /\ scanner.kind = "prefix" /\ scanner.BucketName \in DOMAIN store) =>
        /\ last.exit = "return"
        /\ last.err = "nil"
        /\ NoNilKey(last.keys)
        /\ Ascending(last.keys)
        /\ KeySetOf(last.keys) =
              {k \in DOMAIN store[scanner.BucketName] : StartsWith(k, scanner.Prefix.bytes)}

(* C2 for prefixes of at least one byte: the same statement holds.          *)
C2_NonEmptyPrefix ==
    (/\ last.op = "Keys"
     /\ scanner.kind = "prefix"
     /\ scanner.BucketName \in DOMAIN store
     /\ Len(scanner.Prefix.bytes) > 0) =>
        /\ last.exit = "return"
        /\ last.err = "nil"
        /\ NoNilKey(last.keys)
        /\ Ascending(last.keys)
        /\ KeySetOf(last.keys) =
              {k \in DOMAIN store[scanner.BucketName] : StartsWith(k, scanner.Prefix.bytes)}

\* A prefix scan that returned two keys and left a key of the bucket out.
C2_NonEmptyPrefixWitness ==
    /\ last.op = "Keys"
    /\ scanner.kind = "prefix"
    /\ last.exit = "return"
    /\ Len(last.keys) = 2
    /\ Cardinality(DOMAIN store[scanner.BucketName]) = 3

(* C3: on an existing bucket, RangeScanner(min, max).Keys() returns no      *)
(* error and exactly the keys k with min <= k <= max, both bounds           *)
(* inclusive, in ascending order; it is the empty sequence when min > max   *)
(* or no key is in the interval.                                            *)
C3_RangeKeysExact ==
    (last.op = "Keys" /\ scanner.kind = "range" /\ scanner.BucketName \in DOMAIN store) =>
        /\ last.exit = "return"
        /\ last.err = "nil"
        /\ NoNilKey(last.keys)
        /\ Ascending(last.keys)
        /\ KeySetOf(last.keys) =
              {k \in DOMAIN store[scanner.BucketName] :
                  /\ Compare(scanner.Min.bytes, k) <= 0
                  /\ Compare(k, scanner.Max.bytes) <= 0}
        /\ Compare(scanner.Min.bytes, scanner.Max.bytes) > 0 => last.keys = <<>>

\* A range scan whose first key is min and whose last key is max, on a
\* bucket that also holds a key outside the interval.
C3_Witness ==
    /\ last.op = "Keys"
    /\ scanner.kind = "range"
    /\ last.exit = "return"
    /\ Len(last.keys) = 2
    /\ last.keys[1].bytes = scanner.Min.bytes
    /\ last.keys[2].bytes = scanner.Max.bytes
    /\ Cardinality(DOMAIN store[scanner.BucketName]) = 3

(* C4: if k is absent from an existing bucket and PutNX(k, v) returns       *)
(* without error, then Get(k) reports k present with exactly the bytes of   *)
(* the caller's v.                                                          *)
C4_PutNXAbsentStores ==
    (/\ last.op = "PutNX"
     /\ OnExistingBucket
     /\ last.k.bytes \notin DOMAIN before[last.name]
     /\ last.exit = "return"
     /\ last.err = "nil") =>
        LET g == Get(store, last.name, last.k)
        IN  /\ ~g.value.isNil
            /\ BytesEqual(g.value, last.v)

(* C5: if k already holds a value, PutNX(k, b) returns without error and    *)
(* leaves the whole database as it was, so Get(k) still returns that value. *)
C5_PutNXNonClobber ==
    (/\ last.op = "PutNX"
     /\ OnExistingBucket
     /\ last.k.bytes \in DOMAIN before[last.name]) =>
        /\ last.exit = "return"
        /\ last.err = "nil"
        /\ store = before
        /\ Get(store, last.name, last.k).value = Bytes(before[last.name][last.k.bytes])

\* A PutNX of another value on a key that holds one.
C5_Witness ==
    /\ last.op = "PutNX"
    /\ OnExistingBucket
    /\ last.k.bytes \in DOMAIN before[last.name]
    /\ before[last.name][last.k.bytes] # last.v.bytes

C8_IdempotentDelete ==
    (last.op = "Delete" /\ OnExistingBucket) =>
        /\ last.exit = "return"
        /\ last.err = "nil"
        /\ last.k.bytes \notin DOMAIN before[last.name] => store = before
        /\ Delete(store, last.name, last.k) = Returned("nil", store)
        /\ Get(store, last.name, last.k).value.isNil

\* A Delete of an absent key on a bucket that holds items.
C8_Witness ==
    /\ last.op = "Delete"
    /\ OnExistingBucket
    /\ last.k.bytes \notin DOMAIN before[last.name]
    /\ Len(last.k.bytes) > 0
    /\ DOMAIN before[last.name] # {}

(* C9: on an existing bucket Get(k) returns no error; its result is nil     *)
(* exactly when k is not in the bucket, and is a non-nil slice holding the  *)
(* stored bytes (of length 0 for an empty value) when k is present.         *)
C9_GetAbsentVsEmpty ==
    (last.op = "Get" /\ OnExistingBucket) =>
        /\ last.exit = "return"
        /\ last.err = "nil"
        /\ last.value.isNil <=> (last.k.bytes \notin DOMAIN store[last.name])
        /\ last.k.bytes \in DOMAIN store[last.name] =>
              last.value = Bytes(store[last.name][last.k.bytes])

\* A Get of a key that holds the empty value, in a bucket with an absent key.
C9_Witness ==
    /\ last.op = "Get"
    /\ OnExistingBucket
    /\ last.k.bytes \in DOMAIN store[last.name]
    /\ last.value = Bytes(<<>>)
    /\ Cardinality(DOMAIN store[last.name]) = 1

(* C10: for one scanner and one bucket state, whenever a view returns,      *)
(* Count() = len(Keys()) = len(Values()) = len(Items()), Items()[i] is the  *)
(* pair (Keys()[i], Values()[i]), and Values()[i] is the value stored under *)
(* Keys()[i]; the view just called returned what that view returns.         *)
C10_ViewsAgree ==
    (last.op \in {"Count", "Keys", "Values", "Items"} /\ last.exit = "return") =>
        LET c == ScannerCount(store, scanner)
            ks == ScannerKeys(store, scanner)
            vs == ScannerValues(store, scanner)
            its == ScannerItems(store, scanner)
        IN  /\ c.exit = "return" /\ ks.exit = "return"
            /\ vs.exit = "return" /\ its.exit = "return"
            /\ c.count = Len(ks.keys)
            /\ Len(vs.values) = Len(ks.keys)
            /\ Len(its.items) = Len(ks.keys)
            /\ \A i \in 1..Len(ks.keys) :
                  /\ its.items[i] = [Key |-> ks.keys[i], Value |-> vs.values[i]]
                  /\ ~vs.values[i].isNil
                  /\ vs.values[i].bytes = store[scanner.BucketName][ks.keys[i].bytes]
            /\ last.op = "Count" => last.count = c.count
            /\ last.op = "Keys" => last.keys = ks.keys
            /\ last.op = "Values" => last.values = vs.values
            /\ last.op = "Items" => last.items = its.items

\* A Values() that returned two different values.
C10_Witness ==
    /\ last.op = "Values"
    /\ last.exit = "return"
    /\ Len(last.values) = 2
    /\ last.values[1] # last.values[2]

\* The keys a callback was invoked with, in invocation order.
VisitKeys(visits) == [j \in 1..Len(visits) |-> visits[j].k]

\* Every invocation was made with a key of kv and the value kv holds under it.
OwnValues(visits, kv) ==
    \A j \in 1..Len(visits) :
        /\ ~visits[j].k.isNil
        /\ visits[j].k.bytes \in DOMAIN kv
        /\ ~visits[j].v.isNil
        /\ visits[j].v.bytes = kv[visits[j].k.bytes]

(* C11: on an existing bucket, Bucket.Map(do) with a do that returns no     *)
(* error returns nil and has invoked do once for every item of the bucket,  *)
(* in ascending key order, each key with the value stored under it.         *)
C11_MapVisitsAll ==
    (/\ last.op = "Map"
     /\ OnExistingBucket
     /\ last.do.failOn \cap DOMAIN store[last.name] = {}) =>
        /\ last.exit = "return"
        /\ last.err = "nil"
        /\ Len(last.visits) = Cardinality(DOMAIN store[last.name])
        /\ Ascending(VisitKeys(last.visits))
        /\ KeySetOf(VisitKeys(last.visits)) = DOMAIN store[last.name]
        /\ OwnValues(last.visits, store[last.name])

\* A Map over three items, not all of one value, with a do that never fails.
C11_Witness ==
    /\ last.op = "Map"
    /\ OnExistingBucket
    /\ last.do.failOn = {}
    /\ Len(last.visits) = 3
    /\ last.visits[1].v # last.visits[2].v

(* C12: on an existing bucket, if do returns an error on some item,         *)
(* Bucket.Map returns that error and has invoked do on the items up to and  *)
(* including the first such item, and on no later one; if do returns no     *)
(* error, Map returns nil and has invoked do on every item.                 *)
C12_MapEarlyStop ==
    (last.op = "Map" /\ OnExistingBucket) =>
        LET kv == store[last.name]
            failing == last.do.failOn \cap DOMAIN kv
        IN  /\ last.exit = "return"
            /\ Ascending(VisitKeys(last.visits))
            /\ OwnValues(last.visits, kv)
            /\ KeySetOf(VisitKeys(last.visits)) =
                  {k \in DOMAIN kv : \A f \in failing : Compare(k, f) <= 0}
            /\ failing # {} => last.err = ErrDo
            /\ failing = {} => last.err = "nil"

\* A Map stopped by do on the second of three items.
C12_Witness ==
    /\ last.op = "Map"
    /\ OnExistingBucket
    /\ last.err = ErrDo
    /\ Len(last.visits) = 2
    /\ Cardinality(DOMAIN store[last.name]) = 3

(* C13: when do returns an error during Bucket.MapPrefix, Bucket.MapRange,  *)
(* PrefixScanner.Map or RangeScanner.Map, do is invoked on no later key and *)
(* that error is returned to the caller.                                    *)
C13_FilteredMapEarlyStop ==
    (last.op \in {"MapPrefix", "MapRange", "ScannerMap"} /\ last.exit = "return") =>
        \A j \in 1..Len(last.visits) :
            DoErr(last.do, last.visits[j].k) # "nil" =>
                /\ j = Len(last.visits)
                /\ last.err = DoErr(last.do, last.visits[j].k)

(* C14: a PrefixScanner.Map or RangeScanner.Map that returns, with a do     *)
(* that returns no error, has invoked do once for every matched key of the  *)
(* bucket and on no other key, in ascending key order, each key with the    *)
(* value stored under it.                                                   *)
C14_ScannerMapOwnValues ==
    (last.op = "ScannerMap" /\ last.exit = "return" /\ last.do.failOn = {}) =>
        LET kv == store[scanner.BucketName]
        IN  /\ last.err = "nil"
            /\ Ascending(VisitKeys(last.visits))
            /\ OwnValues(last.visits, kv)
            /\ scanner.kind = "prefix" =>
                  KeySetOf(VisitKeys(last.visits)) =
                      {k \in DOMAIN kv : StartsWith(k, scanner.Prefix.bytes)}
            /\ scanner.kind = "range" =>
                  KeySetOf(VisitKeys(last.visits)) =
                      {k \in DOMAIN kv : /\ Compare(scanner.Min.bytes, k) <= 0
                                         /\ Compare(k, scanner.Max.bytes) <= 0}

\* The items of kv whose key starts with pre / lies in [min, max].
PrefixMatched(kv, pre) == {k \in DOMAIN kv : StartsWith(k, pre.bytes)}

RangeMatched(kv, min, max) ==
    {k \in DOMAIN kv : Compare(min.bytes, k) <= 0 /\ Compare(k, max.bytes) <= 0}

\* A returned sequence of items, as the (k, v) pairs it holds.
ItemPairs(items) == [j \in 1..Len(items) |-> [k |-> items[j].Key, v |-> items[j].Value]]

\* The bytes of a sequence of pairs, whatever memory is behind them.
Contents(pairs) == [j \in 1..Len(pairs) |-> <<pairs[j].k.bytes, pairs[j].v.bytes>>]

\* The pairs are exactly the items of kv with a key in `matched`, ascending.
ExactlyMatched(pairs, kv, matched) ==
    /\ Ascending(VisitKeys(pairs))
    /\ OwnValues(pairs, kv)
    /\ KeySetOf(VisitKeys(pairs)) = matched

(* C15: on an existing bucket, PrefixItems(pre) and MapPrefix(do, pre)      *)
(* return and yield exactly the items whose key starts with pre, and        *)
(* RangeItems(min, max) and MapRange(do, min, max) return and yield exactly *)
(* the items with min <= key <= max, in ascending key order with the key's  *)
(* own value: the sequence the corresponding scanner's Items() returns.     *)
C15_FilteredReadsExact ==
    (/\ last.op \in {"PrefixItems", "MapPrefix", "RangeItems", "MapRange"}
     /\ OnExistingBucket
     /\ last.op \in {"MapPrefix", "MapRange"} => last.do.failOn = {}) =>
        LET kv == store[last.name]
            pairs == IF last.op \in {"PrefixItems", "RangeItems"}
                     THEN ItemPairs(last.items) ELSE last.visits
            matched == IF last.op \in {"PrefixItems", "MapPrefix"}
                       THEN PrefixMatched(kv, last.pre)
                       ELSE RangeMatched(kv, last.min, last.max)
            sc == IF last.op \in {"PrefixItems", "MapPrefix"}
                  THEN PrefixScannerItems(store, [BucketName |-> last.name, Prefix |-> last.pre])
                  ELSE RangeScannerItems(store, [BucketName |-> last.name,
                                                 Min |-> last.min, Max |-> last.max])
        IN  /\ last.exit = "return"
            /\ last.err = "nil"
            /\ ExactlyMatched(pairs, kv, matched)
            /\ sc.exit = "return"
            /\ Contents(pairs) = Contents(ItemPairs(sc.items))

(* C15 for prefixes of at least one byte: the same statement holds.         *)
C15_NonEmptyPrefix ==
    (/\ last.op \in {"PrefixItems", "MapPrefix", "RangeItems", "MapRange"}
     /\ OnExistingBucket
     /\ last.op \in {"MapPrefix", "MapRange"} => last.do.failOn = {}
     /\ last.op \in {"PrefixItems", "MapPrefix"} => Len(last.pre.bytes) > 0) =>
        LET kv == store[last.name]
            pairs == IF last.op \in {"PrefixItems", "RangeItems"}
                     THEN ItemPairs(last.items) ELSE last.visits
            matched == IF last.op \in {"PrefixItems", "MapPrefix"}
                       THEN PrefixMatched(kv, last.pre)
                       ELSE RangeMatched(kv, last.min, last.max)
            sc == IF last.op \in {"PrefixItems", "MapPrefix"}
                  THEN PrefixScannerItems(store, [BucketName |-> last.name, Prefix |-> last.pre])
                  ELSE RangeScannerItems(store, [BucketName |-> last.name,
                                                 Min |-> last.min, Max |-> last.max])
        IN  /\ last.exit = "return"
            /\ last.err = "nil"
            /\ ExactlyMatched(pairs, kv, matched)
            /\ sc.exit = "return"
            /\ Contents(pairs) = Contents(ItemPairs(sc.items))

\* A PrefixItems that returned two of the three items of the bucket.
C15_NonEmptyPrefixWitness ==
    /\ last.op = "PrefixItems"
    /\ OnExistingBucket
    /\ last.exit = "return"
    /\ Len(last.items) = 2
    /\ Cardinality(DOMAIN store[last.name]) = 3

(* C16: on an existing bucket, Bucket.Items() returns no error and every    *)
(* item of the bucket, those with an empty value included, once each, in    *)
(* ascending key order, each key with the value stored under it; the        *)
(* result depends on the bucket's contents only, not on the order of the    *)
(* writes that produced them.                                               *)
C16_ItemsAllAscending ==
    (last.op = "BucketItems" /\ OnExistingBucket) =>
        /\ last.exit = "return"
        /\ last.err = "nil"
        /\ Len(last.items) = Cardinality(DOMAIN store[last.name])
        /\ ExactlyMatched(ItemPairs(last.items), store[last.name], DOMAIN store[last.name])

\* An Items() of three items, the first with an empty value, the second not.
C16_Witness ==
    /\ last.op = "BucketItems"
    /\ OnExistingBucket
    /\ Len(last.items) = 3
    /\ last.items[1].Value = Bytes(<<>>)
    /\ last.items[2].Value # Bytes(<<>>)

(* C17: New(name) on a bucket that exists returns no error and leaves that  *)
(* bucket's items and every other bucket unchanged, so each key put before  *)
(* reads through the new handle with the value it had.                      *)
C17_NewIdempotent ==
    (last.op = "New" /\ last.name \in DOMAIN before) =>
        /\ last.exit = "return"
        /\ last.err = "nil"
        /\ store = before
        /\ last.name \in handles
        /\ \A k \in DOMAIN before[last.name] :
              Get(store, last.name, Bytes(k)).value = Bytes(before[last.name][k])

\* A New on a bucket that holds two items, with another bucket holding one.
C17_Witness ==
    /\ last.op = "New"
    /\ last.name \in DOMAIN before
    /\ Cardinality(DOMAIN before[last.name]) = 2
    /\ \E n \in DOMAIN before : n # last.name /\ DOMAIN before[n] # {}

(* C18: DB.Delete(name) on an existing bucket returns no error and removes  *)
(* the bucket, leaving every other bucket as it was; a New(name) that       *)
(* follows returns no error and the bucket it creates is empty: Get on      *)
(* every key stored before the deletion reports absent and Items() returns  *)
(* nothing.                                                                 *)
C18_DeleteThenRecreate ==
    (last.op = "DBDelete" /\ last.name \in DOMAIN before) =>
        /\ last.exit = "return"
        /\ last.err = "nil"
        /\ store = DeleteBucket(before, last.name)
        /\ LET n == New(store, last.name)
           IN  /\ n.exit = "return"
               /\ n.err = "nil"
               /\ DOMAIN n.db = DOMAIN before
               /\ \A k \in DOMAIN before[last.name] :
                     /\ Get(n.db, last.name, Bytes(k)).exit = "return"
                     /\ Get(n.db, last.name, Bytes(k)).value.isNil
               /\ Items(n.db, last.name).exit = "return"
               /\ Items(n.db, last.name).items = <<>>

\* A DB.Delete of a bucket that holds two items.
C18_Witness ==
    /\ last.op = "DBDelete"
    /\ last.name \in DOMAIN before
    /\ last.err = "nil"
    /\ Cardinality(DOMAIN before[last.name]) = 2

(* C19: DB.Delete(name) when no bucket of that name exists returns an error *)
(* and leaves the set of buckets and all their items unchanged.             *)
C19_DeleteMissingFails ==
    (last.op = "DBDelete" /\ last.name \notin DOMAIN before) =>
        /\ last.exit = "return"
        /\ last.err # "nil"
        /\ store = before

\* A DB.Delete of a missing bucket while another bucket holds items.
C19_Witness ==
    /\ last.op = "DBDelete"
    /\ last.name \notin DOMAIN before
    /\ \E n \in DOMAIN before : DOMAIN before[n] # {}

\* The operations made through a Bucket handle, and through a scanner.
BucketOps ==
    {"Put", "PutNX", "Delete", "Get", "Insert", "InsertNX", "BucketItems", "Map",
     "PrefixItems", "RangeItems", "MapPrefix", "MapRange"}

ScannerOps == {"Count", "Keys", "Values", "Items", "ItemMapping", "ScannerMap"}

(* C20: an operation through a Bucket handle or a scanner whose bucket has  *)
(* been deleted and not re-created returns to its caller with an error and  *)
(* changes no state.                                                        *)
C20_DeletedBucketOpsFail ==
    /\ (last.op \in BucketOps /\ last.name \notin DOMAIN before) =>
          (last.exit = "return" /\ last.err # "nil" /\ store = before)
    /\ (last.op \in ScannerOps /\ scanner.BucketName \notin DOMAIN before) =>
          (last.exit = "return" /\ last.err # "nil" /\ store = before)

(* What the code does instead: no such operation changes state, and each    *)
(* one panics, except an Insert or InsertNX of no items, which returns nil. *)
C20_DeletedBucketOpsPanic ==
    /\ (last.op \in BucketOps /\ last.name \notin DOMAIN before) =>
          /\ store = before
          /\ \/ last.exit = "panic"
             \/ /\ last.op \in {"Insert", "InsertNX"}
                /\ last.items = <<>>
                /\ last.exit = "return"
                /\ last.err = "nil"
    /\ (last.op \in ScannerOps /\ scanner.BucketName \notin DOMAIN before) =>
          (store = before /\ last.exit = "panic")

\* The keys of kv a scanner matches.
Matched(kv, sc) ==
    IF sc.kind = "prefix" THEN PrefixMatched(kv, sc.Prefix)
    ELSE RangeMatched(kv, sc.Min, sc.Max)

\* The views of a scanner, run on db, return the matched items of db.
ViewsReflect(db, sc) ==
    LET kv == db[sc.BucketName]
        m == Matched(kv, sc)
        c == ScannerCount(db, sc)
        ks == ScannerKeys(db, sc)
        vs == ScannerValues(db, sc)
        its == ScannerItems(db, sc)
        im == ScannerItemMapping(db, sc)
    IN  /\ c.exit = "return" /\ c.count = Cardinality(m)
        /\ ks.exit = "return" /\ Ascending(ks.keys) /\ KeySetOf(ks.keys) = m
        /\ vs.exit = "return"
        /\ Len(vs.values) = Len(ks.keys)
        /\ \A i \in 1..Len(ks.keys) : vs.values[i].bytes = kv[ks.keys[i].bytes]
        /\ its.exit = "return" /\ ExactlyMatched(ItemPairs(its.items), kv, m)
        /\ im.exit = "return"
        /\ DOMAIN im.mapping = m
        /\ \A k \in m : im.mapping[k].bytes = kv[k]

(* C23: a scanner value holds its bucket name and its parameters and        *)
(* nothing else; whenever its bucket exists and its walk terminates, every  *)
(* view run on the database as it is now returns the matched items of the   *)
(* database as it is now, whatever was written since the scanner was built; *)
(* and a view that has just returned returned exactly that, so a second     *)
(* call with no write in between returns an equal result.                   *)
C23_ScannersStateless ==
    /\ scanner.kind = "prefix" => DOMAIN scanner = {"kind", "BucketName", "Prefix"}
    /\ scanner.kind = "range" => DOMAIN scanner = {"kind", "BucketName", "Min", "Max"}
    /\ (/\ scanner.kind # "none"
        /\ scanner.BucketName \in DOMAIN store
        /\ scanner.kind = "prefix" => Len(scanner.Prefix.bytes) > 0) =>
          /\ ViewsReflect(store, scanner)
          /\ last.op = "Count" => last.count = ScannerCount(store, scanner).count
          /\ last.op = "Keys" => last.keys = ScannerKeys(store, scanner).keys
          /\ last.op = "Values" => last.values = ScannerValues(store, scanner).values
          /\ last.op = "Items" => last.items = ScannerItems(store, scanner).items
          /\ last.op = "ItemMapping" => last.mapping = ScannerItemMapping(store, scanner).mapping

\* A Put, made after the scanner was built, of a key the bucket did not hold:
\* the scanner's Keys() now returns it.
C23_Witness ==
    /\ last.op = "Put"
    /\ scanner.kind = "range"
    /\ last.err = "nil"
    /\ last.name = scanner.BucketName
    /\ last.k.bytes \notin DOMAIN before[last.name]
    /\ DOMAIN before[last.name] # {}
    /\ last.k.bytes \in KeySetOf(ScannerKeys(store, scanner).keys)

\* The call in `last` ran the prefix loop on a bucket that exists, and the
\* prefix it ran it with.
IsPrefixWalk ==
    \/ last.op \in {"PrefixItems", "MapPrefix"} /\ OnExistingBucket
    \/ /\ last.op \in ScannerOps
       /\ scanner.kind = "prefix"
       /\ scanner.BucketName \in DOMAIN before

WalkPrefix == IF last.op \in {"PrefixItems", "MapPrefix"} THEN last.pre ELSE scanner.Prefix

(* C24: every prefix walk on an existing bucket terminates, for every       *)
(* prefix, the empty and the nil one included, and every bucket state, the  *)
(* empty bucket included: the call returns.                                 *)
C24_PrefixWalksTerminate == IsPrefixWalk => last.exit = "return"

(* What the code does: a prefix walk returns exactly when the prefix has at *)
(* least one byte; with an empty or nil prefix it never returns.            *)
C24_ReturnsIffNonEmptyPrefix ==
    IsPrefixWalk => ((last.exit = "return") <=> (Len(WalkPrefix.bytes) > 0))

\* The database after put-if-absent has been applied to each item in slice
\* order: an item is put when the bucket, as the earlier items left it, does
\* not hold its key.
RECURSIVE PutIfAbsentEach(_, _, _)
PutIfAbsentEach(db, name, items) ==
    IF items = <<>> THEN db
    ELSE LET item == Head(items)
             next == IF item.Key.bytes \in DOMAIN db[name] THEN db
                     ELSE Put(db, name, item.Key, item.Value).db
         IN  PutIfAbsentEach(next, name, Tail(items))

\* The value of the first item of a batch with key k.
FirstOf(items, k) ==
    LET at == {i \in 1..Len(items) : items[i].Key.bytes = k}
    IN  items[CHOOSE i \in at : \A j \in at : i <= j].Value.bytes

(* C25: InsertNX(items) leaves the state that put-if-absent on each item in *)
(* slice order leaves: a key absent before the call that occurs more than   *)
(* once in items holds the value of its first occurrence.                   *)
C25_InsertNXFirstWins ==
    (last.op = "InsertNX" /\ OnExistingBucket) =>
        /\ last.exit = "return"
        /\ store = PutIfAbsentEach(before, last.name, last.items)
        /\ \A k \in (BatchKeys(last.items) \ {<<>>}) \ DOMAIN before[last.name] :
              k \in DOMAIN store[last.name] /\ store[last.name][k] = FirstOf(last.items, k)

(* What the code does: every occurrence of a key absent before the call is  *)
(* put, so the key holds the value of its last occurrence.                  *)
C25_InsertNXLastWins ==
    (last.op = "InsertNX" /\ OnExistingBucket) =>
        \A k \in (BatchKeys(last.items) \ {<<>>}) \ DOMAIN before[last.name] :
            k \in DOMAIN store[last.name] /\ store[last.name][k] = LastOf(last.items, k)

\* The engine rejects the put of some item of the batch.
SomePutRejected(items) == \E i \in 1..Len(items) : BoltPutErr(items[i].Key) # "nil"

(* C26: if the engine rejects the put of an item during Insert or InsertNX  *)
(* on an existing bucket, the operation returns that error and the bucket   *)
(* is left as it was.                                                       *)
C26_BatchFailureSurfaced ==
    (/\ last.op \in {"Insert", "InsertNX"}
     /\ OnExistingBucket
     /\ SomePutRejected(last.items)) =>
        /\ last.exit = "return"
        /\ last.err # "nil"
        /\ store = before

(* What the code does: Insert and InsertNX return nil whatever the puts     *)
(* returned, and the items the engine accepted are committed.               *)
C26_BatchErrorsDropped ==
    (last.op \in {"Insert", "InsertNX"} /\ OnExistingBucket) =>
        /\ last.exit = "return"
        /\ last.err = "nil"
        /\ last.op = "Insert" => store = PutEach(before, last.name, last.items)

\* The byte slices the call in `last` handed to its caller.
ItemSlices(items) ==
    {items[j].Key : j \in 1..Len(items)} \cup {items[j].Value : j \in 1..Len(items)}

ReturnedSlices ==
    IF last.op = "Get" THEN {last.value}
    ELSE IF last.op \in {"BucketItems", "PrefixItems", "RangeItems", "Items"}
    THEN ItemSlices(last.items)
    ELSE IF last.op = "Keys" THEN {last.keys[j] : j \in 1..Len(last.keys)}
    ELSE IF last.op = "Values" THEN {last.values[j] : j \in 1..Len(last.values)}
    ELSE IF last.op = "ItemMapping" THEN {last.mapping[k] : k \in DOMAIN last.mapping}
    ELSE {}

(* C28: no key and no value returned to the caller by Get, Bucket.Items,    *)
(* PrefixItems, RangeItems or a scanner's Keys, Values, Items or            *)
(* ItemMapping points into the pages of the transaction it was read in,     *)
(* which is closed when the call returns.                                   *)
C28_ResultsAreCopies ==
    (last.op # "none" /\ last.exit = "return") =>
        \A x \in ReturnedSlices : x.mem # "tx"

(* What the code does: Get and the Bucket-level Items, PrefixItems and      *)
(* RangeItems return copies; every slice a scanner's Keys, Values, Items    *)
(* or ItemMapping returns is the cursor's own.                              *)
C28_OnlyBucketReadsCopy ==
    (last.op # "none" /\ last.exit = "return") =>
        /\ last.op \in {"Get", "BucketItems", "PrefixItems", "RangeItems"} =>
              \A x \in ReturnedSlices : x.mem # "tx"
        /\ last.op \in {"Keys", "Values", "Items", "ItemMapping"} =>
              \A x \in ReturnedSlices : x.mem = "tx"

\* The calls that only read, and the construction of a scanner.
ReadOps ==
    {"Get", "BucketItems", "PrefixItems", "RangeItems", "Map", "MapPrefix", "MapRange",
     "Count", "Keys", "Values", "Items", "ItemMapping", "ScannerMap",
     "NewPrefixScanner", "NewRangeScanner"}

(* C29: Get, Items, PrefixItems, RangeItems, Map, MapPrefix, MapRange,      *)
(* every scanner view and the construction of a scanner leave the set of    *)
(* buckets and every bucket's items as they were, however the call ends.    *)
C29_ReadsChangeNothing == last.op \in ReadOps => store = before

\* A Get that found its key, in a bucket that holds two more.
C29_Witness ==
    /\ last.op = "Get"
    /\ OnExistingBucket
    /\ ~last.value.isNil
    /\ Cardinality(DOMAIN store[last.name]) = 3

(* C30: a Put(k, v) or Delete(k) that returns no error changes the entry    *)
(* for k in its bucket and nothing else: the set of buckets, every other    *)
(* key of the bucket and every other bucket are as before, and Items()      *)
(* returns each key of the bucket once.                                     *)
C30_WriteIsolation ==
    (last.op \in {"Put", "Delete"} /\ OnExistingBucket /\ last.err = "nil") =>
        /\ last.exit = "return"
        /\ DOMAIN store = DOMAIN before
        /\ \A n \in DOMAIN before \ {last.name} : store[n] = before[n]
        /\ DOMAIN store[last.name] \ {last.k.bytes} = DOMAIN before[last.name] \ {last.k.bytes}
        /\ \A k \in DOMAIN before[last.name] \ {last.k.bytes} :
              store[last.name][k] = before[last.name][k]
        /\ last.op = "Put" => (last.k.bytes \in DOMAIN store[last.name]
                               /\ store[last.name][last.k.bytes] = last.v.bytes)
        /\ last.op = "Delete" => last.k.bytes \notin DOMAIN store[last.name]
        /\ LET its == Items(store, last.name).items
           IN  \A i, j \in 1..Len(its) : its[i].Key.bytes = its[j].Key.bytes => i = j

\* A Delete of one of the two keys of a bucket while the other bucket holds
\* an item.
C30_Witness ==
    /\ last.op = "Delete"
    /\ OnExistingBucket
    /\ last.k.bytes \in DOMAIN before[last.name]
    /\ Cardinality(DOMAIN before[last.name]) = 2
    /\ \E n \in DOMAIN before : n # last.name /\ DOMAIN before[n] # {}

\* The step is the write of goroutine p's PutNX.
IsPutNXWrite(p) ==
    /\ calls[p].op = "PutNX"
    /\ calls[p].pc = "write"
    /\ calls'[p].pc = "done"

(* C21: PutNX's probe and PutNX's write are two transactions.  A PutNX      *)
(* whose probe saw k absent goes on to its write whatever has been          *)
(* committed since, and the write puts k without looking again: whatever k  *)
(* holds when the write begins, a value another goroutine committed after   *)
(* the probe included, is overwritten.                                      *)
C21_PutNXWriteUnconditional ==
    [][\A p \in Callers :
          IsPutNXWrite(p) =>
              /\ calls[p].v.isNil
              /\ store' = Put(store, TxName, calls[p].k, calls[p].v).db
              /\ calls[p].k.bytes \in DOMAIN store'[TxName]
              /\ store'[TxName][calls[p].k.bytes] = calls[p].v.bytes]_vars

\* A PutNX has written over a value that the other goroutine committed
\* between the probe, which saw the key absent, and the write.
C21_Witness ==
    /\ calls["g1"].op = "PutNX"
    /\ calls["g1"].pc = "done"
    /\ calls["g1"].wrote
    /\ calls["g1"].found = TxBytes(TxValue.bytes)
    /\ calls["g2"].op = "Put"
    /\ calls["g2"].k = calls["g1"].k
    /\ store[TxName][calls["g1"].k.bytes] # TxValue.bytes

\* Goroutine p is inside the read-write transaction of an Insert or InsertNX.
InBatch(p) == calls[p].op \in {"Insert", "InsertNX"} /\ calls[p].pc # "done"

\* What the whole batch makes of the bucket contents it began on.
WholeBatch(c) ==
    IF c.op = "Insert" THEN InsertLoop(c.begun, c.items)
    ELSE InsertNXLoop([n \in {TxName} |-> c.begun], TxName, c.begun, c.items)

(* C22: while an Insert or InsertNX is inside its read-write transaction    *)
(* the committed bucket, which is what every reader sees, is the bucket     *)
(* the transaction began on: no step of the batch but its commit changes    *)
(* it, no other goroutine commits meanwhile (so none between an InsertNX    *)
(* item's existence check and its put), and the commit replaces it by the   *)
(* result of the whole batch.                                               *)
C22_BatchAtomic ==
    [][\A p \in Callers :
          InBatch(p) =>
              /\ store[TxName] = calls[p].begun
              /\ IF calls'[p].pc = "done"
                 THEN store' = Commit(store, TxName, WholeBatch(calls[p]))
                 ELSE store' = store]_vars

\* An Insert has put its first item inside its transaction, and a Get of
\* that key by the other goroutine, made while a read-write transaction was
\* open, found the key absent.
C22_Witness ==
    /\ calls["g1"].op = "Insert"
    /\ calls["g1"].pc = "loop"
    /\ calls["g1"].i = 2
    /\ Len(calls["g1"].items) = 2
    /\ calls["g1"].items[1].Key.bytes \notin DOMAIN store[TxName]
    /\ calls["g1"].items[1].Key.bytes \in DOMAIN calls["g1"].kv
    /\ calls["g2"].op = "Get"
    /\ calls["g2"].during
    /\ calls["g2"].k = calls["g1"].items[1].Key
    /\ calls["g2"].value.isNil

(* C27: a call opens one transaction, and has at most one open at a time.   *)
C27_OneTransactionPerCall ==
    \A p \in Callers : calls[p].txs <= 1 /\ Len(calls[p].open) <= 1

(* What the code does: Put, Get and Insert open one transaction; PutNX      *)
(* opens a read-only and then a read-write one; InsertNX opens, inside its  *)
(* read-write transaction, one read-only transaction for every item.        *)
C27_TransactionsPerCall ==
    \A p \in Callers :
        LET c == calls[p]
        IN  /\ c.op \in {"Put", "Get", "Insert"} => (c.txs = 1 /\ Len(c.open) <= 1)
            /\ c.op = "PutNX" => (c.txs <= 2 /\ c.open = <<>> /\ (c.wrote => c.txs = 2))
            /\ c.op = "InsertNX" =>
                  /\ c.txs <= 1 + Len(c.items)
                  /\ c.pc = "get" => c.open = <<"update", "view">>
                  /\ c.pc = "done" => c.txs = 1 + Len(c.items)

====
